---- MODULE Spec2Model ----
(***************************************************************************)
(* Page partitioning of audiobook_generator: chunk_to_pages.py             *)
(*   chunk_into_pages -> repartition (greedy pass, hard-split post-pass,   *)
(*   parallel smart-splitter dispatch, flattening);                        *)
(* its caller AudioBookGenerator.from_large_md (audiobook_generator.py);   *)
(* and the page loop of the static export (scripts/export_audiobook.py)    *)
(* over the pages of AudioBookApp (audiobook_app.py).                      *)
(*                                                                         *)
(* Text is a sequence of one-character strings.  "a" is a letter, "." a    *)
(* period, " " whitespace.  The page marker pattern                        *)
(*     <span id="page-\d+-\d+"></span>                                     *)
(* is kept at token level: "<" is the literal prefix <span id="page-,      *)
(* "0" a digit, "-" the hyphen, ">" the literal suffix "></span>.          *)
(***************************************************************************)
EXTENDS Integers, Sequences, FiniteSets, TLC

VARIABLES
    doc,          \* text argument of chunk_into_pages
    page_range,   \* page_range argument of chunk_into_pages
    target,       \* target_input_each of repartition
    pages,        \* pages of chunk_into_pages / repartition
    inputs,       \* inputs of repartition (the Units)
    new_inputs,   \* new_inputs of repartition
    idx,          \* position of the post-pass loop in inputs
    page,         \* page of split_long_page (the remaining text)
    sl_pages,     \* pages of split_long_page (the pieces cut so far)
    run_outputs,  \* the list multi_thread returns, being filled
    calls,        \* per Unit: the response its split_text call produced
    completed,    \* Unit indices in the order their calls completed
    outputs,      \* outputs of repartition
    pc,           \* position of the control flow
    entry,        \* the function the caller entered
    page_rage,    \* page_rage argument of from_large_md
    items,        \* items of the AudioBookGenerator
    export_idx,   \* idx of the page loop of export_audiobook.main
    written,      \* names of the files the export wrote
    links,        \* per written file: the href values of its html
    improve,      \* per item: the worker of improve_transcript on it
    response,     \* what the app answered to the last request
    clipboard,    \* the text on the system clipboard
    latest_text,  \* TextToSpeechManager.latest_text
    playing,      \* sound_player.playing
    main,         \* the main thread: its position in monitor_clipboard
    file,         \* the audio chunk sound.wav holds
    threads,      \* per call of play: its _play thread
    watchers,     \* per call of play: its _check_to_interrupt thread
    spoken,       \* the texts handed to text_to_speech, in order
    pending       \* the clipboard changed during a playback and interrupt
                  \* was not called since

\* the state of AudioBookGenerator.from_large_md
caller_vars == <<entry, page_rage, items>>

vars == <<doc, page_range, target, pages, inputs, new_inputs, idx, page,
          sl_pages, run_outputs, calls, completed, outputs, pc, entry,
          page_rage, items, export_idx, written, links, improve, response,
          clipboard, latest_text, playing, main, file, threads, watchers,
          spoken, pending>>

\* the state of export_audiobook.main
export_vars == <<export_idx, written, links>>

\* the state of AudioBookGenerator.improve_transcript
improve_vars == <<improve>>

\* the state of a browser on the pages of AudioBookApp
app_vars == <<response>>

\* the state of clipboard_sound
sound_vars == <<clipboard, latest_text, playing, main, file, threads,
                watchers, spoken, pending>>

\* sound_player = PlaySoundInThread() and TextToSpeechManager(config), with
\* an empty clipboard
SoundIdle ==
    /\ clipboard = <<>>
    /\ latest_text = <<>>
    /\ playing = FALSE
    /\ main = [pc |-> "poll", text |-> <<>>, k |-> 0, n |-> 0]
    /\ file = <<>>
    /\ threads = <<>>
    /\ watchers = <<>>
    /\ spoken = <<>>
    /\ pending = FALSE

\* no request was made yet
NoResponse == [path |-> <<>>, via |-> "none", fromHome |-> FALSE,
               page |-> [status |-> 0]]

----------------------------------------------------------------------------
(* Bounds *)

MaxDocLen == 5

MaxTarget == 3

MaxPageLen == 9

MaxTokLen == 5

MaxCuts == 3

MaxAtoms == 4

MaxRange == 2

MaxPages == 3

MaxWorkers == 2

MaxBook == 14

MaxItems == 3

MaxAppPages == 3

MaxPlays == 2

MaxChunks == 2

----------------------------------------------------------------------------
(* Python string primitives *)

None == "None"

Min(a, b) == IF a < b THEN a ELSE b

Max(a, b) == IF a > b THEN a ELSE b

IsSpace(c) == c = " "

IsDigit(c) == c \in {"0", "1"}

\* s[:k] of Python, k any integer
PyPrefix(s, k) ==
    IF k >= 0 THEN SubSeq(s, 1, Min(k, Len(s)))
    ELSE SubSeq(s, 1, Max(Len(s) + k, 0))

\* s[k:] of Python, k any integer
PySuffix(s, k) ==
    IF k >= 0 THEN SubSeq(s, Min(k, Len(s)) + 1, Len(s))
    ELSE SubSeq(s, Max(Len(s) + k, 0) + 1, Len(s))

\* s[a:b] of Python for a list, a and b any integers
PySlice(s, a, b) ==
    LET n  == Len(s)
        lo == IF a >= 0 THEN Min(a, n) ELSE Max(n + a, 0)
        hi == IF b >= 0 THEN Min(b, n) ELSE Max(n + b, 0)
    IN  SubSeq(s, lo + 1, hi)

\* s.rfind("."): 0-based index of the last period, -1 when there is none
RFindDot(s) ==
    LET hits == {i \in 1..Len(s) : s[i] = "."}
    IN  IF hits = {} THEN -1
        ELSE (CHOOSE i \in hits : \A j \in hits : j <= i) - 1

RECURSIVE LStrip(_)
LStrip(s) == IF s = <<>> \/ ~IsSpace(Head(s)) THEN s ELSE LStrip(Tail(s))

RECURSIVE RStrip(_)
RStrip(s) ==
    IF s = <<>> \/ ~IsSpace(s[Len(s)]) THEN s
    ELSE RStrip(SubSeq(s, 1, Len(s) - 1))

\* s.strip()
Strip(s) == RStrip(LStrip(s))

\* len(text.split()): the number of maximal runs of non-whitespace
word_count(text) ==
    Cardinality({i \in 1..Len(text) :
        /\ ~IsSpace(text[i])
        /\ (i = 1 \/ IsSpace(text[i - 1]))})

----------------------------------------------------------------------------
(* re.split(pattern, text) *)

\* first index >= i that holds no digit (Len+1 when the digits run to the end)
RECURSIVE DigitsEnd(_, _)
DigitsEnd(text, i) ==
    IF i <= Len(text) /\ IsDigit(text[i]) THEN DigitsEnd(text, i + 1) ELSE i

\* variant of MatchEnd: the second integer may be missing
MatchEndNoSecond(text, i) ==
    IF i > Len(text) \/ text[i] # "<" THEN 0
    ELSE LET j == DigitsEnd(text, i + 1)
         IN  IF j = i + 1 \/ j > Len(text) \/ text[j] # "-" THEN 0
             ELSE LET k == DigitsEnd(text, j + 1)
                  IN  IF k > Len(text) \/ text[k] # ">" THEN 0
                      ELSE k + 1

\* index just after the marker that starts at i, 0 when none starts there
MatchEnd(text, i) ==
    IF i > Len(text) \/ text[i] # "<" THEN 0
    ELSE LET j == DigitsEnd(text, i + 1)
         IN  IF j = i + 1 \/ j > Len(text) \/ text[j] # "-" THEN 0
             ELSE LET k == DigitsEnd(text, j + 1)
                  IN  IF k = j + 1 \/ k > Len(text) \/ text[k] # ">" THEN 0
                      ELSE k + 1

\* variant of ReSplitFrom: the next segment starts at the marker, not after it
RECURSIVE ReSplitKeepMarker(_, _, _)
ReSplitKeepMarker(text, i, seg) ==
    IF i > Len(text) THEN <<SubSeq(text, seg, Len(text))>>
    ELSE LET e == MatchEnd(text, i)
         IN  IF e = 0 THEN ReSplitKeepMarker(text, i + 1, seg)
             ELSE <<SubSeq(text, seg, i - 1)>> \o ReSplitKeepMarker(text, e, i)

\* leftmost non-overlapping matches; the segments between them, empty ones kept
RECURSIVE ReSplitFrom(_, _, _)
ReSplitFrom(text, i, seg) ==
    IF i > Len(text) THEN <<SubSeq(text, seg, Len(text))>>
    ELSE LET e == MatchEnd(text, i)
         IN  IF e = 0 THEN ReSplitFrom(text, i + 1, seg)
             ELSE <<SubSeq(text, seg, i - 1)>> \o ReSplitFrom(text, e, e)

ReSplit(text) == ReSplitFrom(text, 1, 1)

\* variant of StripNonEmpty: pages are trimmed but blank ones are kept
StripKeepEmpty(ps) == [k \in 1..Len(ps) |-> Strip(ps[k])]

\* [page.strip() for page in pages if page.strip()]
RECURSIVE StripNonEmpty(_)
StripNonEmpty(ps) ==
    IF ps = <<>> THEN <<>>
    ELSE LET p == Strip(Head(ps))
         IN  (IF p = <<>> THEN <<>> ELSE <<p>>) \o StripNonEmpty(Tail(ps))

\* the pages chunk_into_pages hands to repartition
MarkerPages(text, range) ==
    LET ps == StripNonEmpty(ReSplit(text))
    IN  IF range = None THEN ps ELSE PySlice(ps, range[1], range[2])

----------------------------------------------------------------------------
(* repartition: greedy pass and hard-split post-pass *)

\* variant of GreedyFrom: a page also joins when the sum reaches the target
RECURSIVE GreedyFromAtMost(_, _, _, _)
GreedyFromAtMost(ps, cur, acc, t) ==
    IF ps = <<>> THEN (IF Len(cur) > 0 THEN Append(acc, cur) ELSE acc)
    ELSE LET p == Head(ps)
         IN  IF word_count(cur) + word_count(p) <= t
             THEN GreedyFromAtMost(Tail(ps), cur \o p, acc, t)
             ELSE GreedyFromAtMost(Tail(ps), p,
                             IF Len(cur) > 0 THEN Append(acc, cur) ELSE acc, t)

\* the loop over pages and the trailing append: cur is current_input,
\* acc is inputs
RECURSIVE GreedyFrom(_, _, _, _)
GreedyFrom(ps, cur, acc, t) ==
    IF ps = <<>> THEN (IF Len(cur) > 0 THEN Append(acc, cur) ELSE acc)
    ELSE LET p == Head(ps)
         IN  IF word_count(cur) + word_count(p) < t
             THEN GreedyFrom(Tail(ps), cur \o p, acc, t)
             ELSE GreedyFrom(Tail(ps), p,
                             IF Len(cur) > 0 THEN Append(acc, cur) ELSE acc, t)

Greedy(ps, t) == GreedyFrom(ps, <<>>, <<>>, t)

\* variant of NeedsSplit: a Unit is split as soon as it exceeds the target
NeedsSplitOverTarget(u, t) == word_count(u) > t

\* word_count(i) > target_input_each * 1.5
NeedsSplit(u, t) == 2 * word_count(u) > 3 * t

\* new_split_point of split_long_page: page[:target_wc].rfind(".")
NewSplitPoint(pg, t) == RFindDot(PyPrefix(pg, t))

\* proposed_page = page[:new_split_point]
ProposedPage(pg, t) == PyPrefix(pg, NewSplitPoint(pg, t))

\* variant of RestPage: the remaining text resumes after the period
RestPageAfterDot(pg, t) == PySuffix(pg, NewSplitPoint(pg, t) + 1)

\* page = page[new_split_point:]
RestPage(pg, t) == PySuffix(pg, NewSplitPoint(pg, t))

----------------------------------------------------------------------------
(* split_text, multi_thread and the flattening *)

\* a slot of the result list that no call has filled yet
Pending == [state |-> "pending", output_chunks |-> <<>>]

Chunk(title, text) == [title |-> title, text |-> text]

\* What one split_text call can come back with.  The language model is free:
\* it may return the text whole, cut in two, preceded by a blank chunk,
\* shortened, or as no chunk at all; or the call raises.
Responses(u) ==
    {[state |-> "returned", output_chunks |-> <<Chunk("T", u)>>],
     [state |-> "returned", output_chunks |-> <<>>],
     [state |-> "returned", output_chunks |-> <<Chunk("T", <<>>), Chunk("T", u)>>],
     [state |-> "raised", output_chunks |-> <<>>]}
    \cup (IF Len(u) < 2 THEN {}
          ELSE {[state |-> "returned",
                 output_chunks |-> <<Chunk("T", SubSeq(u, 1, 1)),
                                     Chunk("T", SubSeq(u, 2, Len(u)))>>],
                [state |-> "returned",
                 output_chunks |-> <<Chunk("T", SubSeq(u, 1, 1))>>]})

\* variant of Slot: results are kept in the order the calls complete
SlotByCompletion(i, done) == Len(done) + 1

\* position in the returned list of the result of the call submitted i-th:
\* multi_thread returns results in input order
Slot(i, done) == i

\* variant of Flatten: each chunk list is put in front of the earlier ones
RECURSIVE FlattenPrepend(_)
FlattenPrepend(rs) ==
    IF rs = <<>> THEN <<>>
    ELSE FlattenPrepend(Tail(rs)) \o Head(rs).output_chunks

\* outputs.extend(run_output.output_chunks) for run_output in run_outputs
RECURSIVE Flatten(_)
Flatten(rs) ==
    IF rs = <<>> THEN <<>>
    ELSE Head(rs).output_chunks \o Flatten(Tail(rs))

\* out.model_dump() with text_md and page_title added
Dump(c) == [title |-> c.title, text |-> c.text,
            text_md |-> c.text, page_title |-> c.title]

DumpAll(cs) == [k \in 1..Len(cs) |-> Dump(cs[k])]

----------------------------------------------------------------------------
(* Inputs *)

Marker == <<"<", "0", "-", "0", ">">>

Atoms == {<<"a">>, <<".">>, <<" ">>, Marker}

\* documents made of at most n atoms
RECURSIVE Docs(_)
Docs(n) ==
    IF n = 0 THEN {<<>>}
    ELSE LET S == Docs(n - 1) IN S \cup {d \o a : d \in S, a \in Atoms}

\* marker-free texts of at most n periods and blanks: at target 3 the
\* shortest text that split_long_page cuts at a period and returns from has
\* 9 characters
RECURSIVE Dotted(_)
Dotted(n) ==
    IF n = 0 THEN {<<>>}
    ELSE LET S == Dotted(n - 1)
         IN  S \cup {d \o a : d \in S, a \in {<<".">>, <<" ">>}}

\* chunk_into_pages(text) is called without page_range by from_large_md;
\* repartition's target_input_each (default 3000) is drawn from 1..MaxTarget
\* texts of at most n tokens, among them the pieces of markers in any
\* arrangement: well-formed markers and malformed ones
RECURSIVE Tokens(_)
Tokens(n) ==
    IF n = 0 THEN {<<>>}
    ELSE LET S == Tokens(n - 1)
         IN  S \cup {Append(d, c) : d \in S,
                                     c \in {"<", "0", "-", ">", "a", " "}}

\* what chunk_into_pages starts from, the document and the target aside
Start ==
    /\ page_range = None
    /\ pages = <<>>
    /\ inputs = <<>>
    /\ new_inputs = <<>>
    /\ idx = 1
    /\ page = <<>>
    /\ sl_pages = <<>>
    /\ run_outputs = <<>>
    /\ calls = <<>>
    /\ completed = <<>>
    /\ outputs = <<>>
    /\ pc = "chunk_into_pages"
    /\ entry = "chunk_into_pages"
    /\ page_rage = None
    /\ items = <<>>
    /\ export_idx = 0
    /\ written = {}
    /\ links = <<>>
    /\ improve = <<>>
    /\ response = NoResponse
    /\ SoundIdle

Init ==
    /\ doc \in Docs(MaxDocLen) \cup Dotted(MaxPageLen)
    /\ target \in 1..MaxTarget
    /\ Start

----------------------------------------------------------------------------
(* Actions *)

\* chunk_into_pages up to the call of repartition
ChunkIntoPages ==
    /\ pc = "chunk_into_pages"
    /\ pages' = MarkerPages(doc, page_range)
    /\ pc' = "greedy"
    /\ UNCHANGED caller_vars
    /\ UNCHANGED export_vars
    /\ UNCHANGED sound_vars
    /\ UNCHANGED app_vars
    /\ UNCHANGED improve_vars
    /\ UNCHANGED <<doc, page_range, target, inputs, new_inputs, idx, page,
                   sl_pages, run_outputs, calls, completed, outputs>>

\* repartition: the greedy loop
GreedyPass ==
    /\ pc = "greedy"
    /\ inputs' = Greedy(pages, target)
    /\ new_inputs' = <<>>
    /\ idx' = 1
    /\ pc' = "postpass"
    /\ UNCHANGED caller_vars
    /\ UNCHANGED export_vars
    /\ UNCHANGED sound_vars
    /\ UNCHANGED app_vars
    /\ UNCHANGED improve_vars
    /\ UNCHANGED <<doc, page_range, target, pages, page, sl_pages,
                   run_outputs, calls, completed, outputs>>

\* post-pass, one Unit that is not split
PostPassKeep ==
    /\ pc = "postpass"
    /\ idx <= Len(inputs)
    /\ ~NeedsSplit(inputs[idx], target)
    /\ new_inputs' = Append(new_inputs, inputs[idx])
    /\ idx' = idx + 1
    /\ UNCHANGED caller_vars
    /\ UNCHANGED export_vars
    /\ UNCHANGED sound_vars
    /\ UNCHANGED app_vars
    /\ UNCHANGED improve_vars
    /\ UNCHANGED <<doc, page_range, target, pages, inputs, page, sl_pages,
                   run_outputs, calls, completed, outputs, pc>>

\* post-pass, one Unit over the threshold: split_long_page is entered
PostPassSplit ==
    /\ pc = "postpass"
    /\ idx <= Len(inputs)
    /\ NeedsSplit(inputs[idx], target)
    /\ page' = inputs[idx]
    /\ sl_pages' = <<>>
    /\ pc' = "split"
    /\ UNCHANGED caller_vars
    /\ UNCHANGED export_vars
    /\ UNCHANGED sound_vars
    /\ UNCHANGED app_vars
    /\ UNCHANGED improve_vars
    /\ UNCHANGED <<doc, page_range, target, pages, inputs, new_inputs, idx,
                   run_outputs, calls, completed, outputs>>

\* split_long_page: one iteration of the while loop.  An iteration that cuts
\* at index 0 leaves page as it was; such iterations are followed MaxCuts
\* times.
SplitCut ==
    /\ pc = "split"
    /\ word_count(page) > target
    /\ NewSplitPoint(page, target) # 0 \/ Len(sl_pages) < MaxCuts
    /\ sl_pages' = Append(sl_pages, ProposedPage(page, target))
    /\ page' = RestPage(page, target)
    /\ UNCHANGED caller_vars
    /\ UNCHANGED export_vars
    /\ UNCHANGED sound_vars
    /\ UNCHANGED app_vars
    /\ UNCHANGED improve_vars
    /\ UNCHANGED <<doc, page_range, target, pages, inputs, new_inputs, idx,
                   run_outputs, calls, completed, outputs, pc>>

\* split_long_page: the loop ends, the tail is appended, new_inputs extended
SplitReturn ==
    /\ pc = "split"
    /\ word_count(page) <= target
    /\ new_inputs' = new_inputs \o Append(sl_pages, page)
    /\ idx' = idx + 1
    /\ page' = <<>>
    /\ sl_pages' = <<>>
    /\ pc' = "postpass"
    /\ UNCHANGED caller_vars
    /\ UNCHANGED export_vars
    /\ UNCHANGED sound_vars
    /\ UNCHANGED app_vars
    /\ UNCHANGED improve_vars
    /\ UNCHANGED <<doc, page_range, target, pages, inputs, run_outputs,
                   calls, completed, outputs>>

\* inputs = new_inputs, and multi_thread submits one call per Unit
Submit ==
    /\ pc = "postpass"
    /\ idx > Len(inputs)
    /\ inputs' = new_inputs
    /\ run_outputs' = [i \in 1..Len(new_inputs) |-> Pending]
    /\ calls' = [i \in 1..Len(new_inputs) |-> Pending]
    /\ completed' = <<>>
    /\ pc' = "dispatch"
    /\ UNCHANGED caller_vars
    /\ UNCHANGED export_vars
    /\ UNCHANGED sound_vars
    /\ UNCHANGED app_vars
    /\ UNCHANGED improve_vars
    /\ UNCHANGED <<doc, page_range, target, pages, new_inputs, idx, page,
                   sl_pages, outputs>>

\* the split_text call of Unit i, from its start to its completion (the
\* worker that runs it is told apart in StartCall and FinishCall)
Complete(i) ==
    /\ pc = "dispatch"
    /\ calls[i] = Pending
    /\ \E r \in Responses(inputs[i]) :
        /\ calls' = [calls EXCEPT ![i] = r]
        /\ run_outputs' = [run_outputs EXCEPT ![Slot(i, completed)] = r]
    /\ completed' = Append(completed, i)
    /\ UNCHANGED caller_vars
    /\ UNCHANGED export_vars
    /\ UNCHANGED sound_vars
    /\ UNCHANGED app_vars
    /\ UNCHANGED improve_vars
    /\ UNCHANGED <<doc, page_range, target, pages, inputs, new_inputs, idx,
                   page, sl_pages, outputs, pc>>

\* a call raised: nothing in repartition catches it
RaiseError ==
    /\ pc = "dispatch"
    /\ \E i \in 1..Len(inputs) : calls[i].state = "raised"
    /\ pc' = "raised"
    /\ UNCHANGED caller_vars
    /\ UNCHANGED export_vars
    /\ UNCHANGED sound_vars
    /\ UNCHANGED app_vars
    /\ UNCHANGED improve_vars
    /\ UNCHANGED <<doc, page_range, target, pages, inputs, new_inputs, idx,
                   page, sl_pages, run_outputs, calls, completed, outputs>>

\* all calls returned: the flattening loops and the return
Collect ==
    /\ pc = "dispatch"
    /\ \A i \in 1..Len(inputs) : calls[i].state = "returned"
    /\ outputs' = DumpAll(Flatten(run_outputs))
    /\ pc' = "done"
    /\ UNCHANGED caller_vars
    /\ UNCHANGED export_vars
    /\ UNCHANGED sound_vars
    /\ UNCHANGED app_vars
    /\ UNCHANGED improve_vars
    /\ UNCHANGED <<doc, page_range, target, pages, inputs, new_inputs, idx,
                   page, sl_pages, run_outputs, calls, completed>>

Next ==
    \/ ChunkIntoPages
    \/ GreedyPass
    \/ PostPassKeep
    \/ PostPassSplit
    \/ SplitCut
    \/ SplitReturn
    \/ Submit
    \/ \E i \in 1..Len(inputs) : Complete(i)
    \/ RaiseError
    \/ Collect

Spec == Init /\ [][Next]_vars

----------------------------------------------------------------------------
(* Page ranges: chunk_into_pages(text, page_range) called directly, and    *)
(* AudioBookGenerator.from_large_md(md_file, page_rage).                   *)

\* {"text": p} after __init__ with to_md=False: text_md is the same object
Item(p) == [text |-> p, text_md |-> p]

\* items of from_large_md: every returned page wrapped, then the slice
LargeMdItems(ps, rage) ==
    LET all == [k \in 1..Len(ps) |-> Item(ps[k])]
    IN  IF rage = None THEN all ELSE PySlice(all, rage[1], rage[2])

\* from_large_md up to its call chunk_into_pages(file.read())
FromLargeMdCall ==
    /\ pc = "from_large_md"
    /\ page_range' = None
    /\ pc' = "chunk_into_pages"
    /\ UNCHANGED caller_vars
    /\ UNCHANGED export_vars
    /\ UNCHANGED sound_vars
    /\ UNCHANGED app_vars
    /\ UNCHANGED improve_vars
    /\ UNCHANGED <<doc, target, pages, inputs, new_inputs, idx, page,
                   sl_pages, run_outputs, calls, completed, outputs>>

\* from_large_md from the return of chunk_into_pages to its own return
FromLargeMdReturn ==
    /\ pc = "done"
    /\ entry = "from_large_md"
    /\ items' = LargeMdItems(outputs, page_rage)
    /\ pc' = "generator"
    /\ UNCHANGED <<entry, page_rage>>
    /\ UNCHANGED export_vars
    /\ UNCHANGED sound_vars
    /\ UNCHANGED app_vars
    /\ UNCHANGED improve_vars
    /\ UNCHANGED <<doc, page_range, target, pages, inputs, new_inputs, idx,
                   page, sl_pages, run_outputs, calls, completed, outputs>>

\* the page ranges a caller passes
Ranges == (0..MaxRange) \X (0..MaxRange)

\* documents made of at most n letters, blanks and markers
RECURSIVE RangeDocs(_)
RangeDocs(n) ==
    IF n = 0 THEN {<<>>}
    ELSE LET S == RangeDocs(n - 1)
         IN  S \cup {d \o a : d \in S, a \in {<<"a">>, <<" ">>, Marker}}

InitRange ==
    /\ doc \in RangeDocs(MaxDocLen)
    /\ target \in 1..MaxTarget
    /\ entry \in {"chunk_into_pages", "from_large_md"}
    /\ pc = entry
    /\ \E r \in Ranges \cup {None} :
        IF entry = "chunk_into_pages"
        THEN page_range = r /\ page_rage = None
        ELSE page_range = None /\ page_rage = r
    /\ pages = <<>>
    /\ inputs = <<>>
    /\ new_inputs = <<>>
    /\ idx = 1
    /\ page = <<>>
    /\ sl_pages = <<>>
    /\ run_outputs = <<>>
    /\ calls = <<>>
    /\ completed = <<>>
    /\ outputs = <<>>
    /\ items = <<>>
    /\ export_idx = 0
    /\ written = {}
    /\ links = <<>>
    /\ improve = <<>>
    /\ response = NoResponse
    /\ SoundIdle

NextRange == FromLargeMdCall \/ Next \/ FromLargeMdReturn

SpecRange == InitRange /\ [][NextRange]_vars

----------------------------------------------------------------------------
(* The balancer alone: chunk_into_pages up to the call of multi_thread, on *)
(* documents whose RawPages have one to five words.                        *)

PageTexts == {<<"a">>, <<"a", " ", "a">>, <<"a", " ", "a", " ", "a">>,
              <<"a", " ", "a", " ", "a", " ", "a">>,
              <<"a", " ", "a", " ", "a", " ", "a", " ", "a">>,
              <<"a", ".">>, <<".", " ", "a">>,
              <<"a", ".", " ", "a", " ", "a", " ", "a">>}

\* documents of at most n RawPages from PageTexts, a marker between them
RECURSIVE BalanceDocs(_)
BalanceDocs(n) ==
    IF n = 0 THEN {<<>>}
    ELSE LET S == BalanceDocs(n - 1)
         IN  S \cup {IF d = <<>> THEN p ELSE d \o Marker \o p :
                        d \in S, p \in PageTexts}

InitBalance ==
    /\ doc \in BalanceDocs(MaxPages)
    /\ target \in 1..MaxTarget
    /\ Start

NextBalance ==
    \/ ChunkIntoPages
    \/ GreedyPass
    \/ PostPassKeep
    \/ PostPassSplit
    \/ SplitCut
    \/ SplitReturn
    \/ Submit

SpecBalance == InitBalance /\ [][NextBalance]_vars

----------------------------------------------------------------------------
(* The worker pool of multi_thread: the calls are started as workers are   *)
(* free and finish in any order.  workers=100 of the source is scaled to   *)
(* MaxWorkers, as the target is.                                           *)

\* a slot whose call a worker is executing
Running == [state |-> "running", output_chunks |-> <<>>]

\* the Units whose call is in flight
InFlight == {i \in 1..Len(calls) : calls[i] = Running}

\* variant of HasFreeWorker: a call starts whatever the number in flight
AlwaysFreeWorker(n) == TRUE

\* the pool starts a call only while fewer than workers calls are in flight
HasFreeWorker(n) == n < MaxWorkers

\* a worker takes Unit i and calls split_text on it
StartCall(i) ==
    /\ pc = "dispatch"
    /\ calls[i] = Pending
    /\ HasFreeWorker(Cardinality(InFlight))
    /\ calls' = [calls EXCEPT ![i] = Running]
    /\ UNCHANGED caller_vars
    /\ UNCHANGED export_vars
    /\ UNCHANGED sound_vars
    /\ UNCHANGED app_vars
    /\ UNCHANGED improve_vars
    /\ UNCHANGED <<doc, page_range, target, pages, inputs, new_inputs, idx,
                   page, sl_pages, run_outputs, completed, outputs, pc>>

\* the call of Unit i comes back and its result is stored
FinishCall(i) ==
    /\ pc = "dispatch"
    /\ calls[i] = Running
    /\ \E r \in Responses(inputs[i]) :
        /\ calls' = [calls EXCEPT ![i] = r]
        /\ run_outputs' = [run_outputs EXCEPT ![Slot(i, completed)] = r]
    /\ completed' = Append(completed, i)
    /\ UNCHANGED caller_vars
    /\ UNCHANGED export_vars
    /\ UNCHANGED sound_vars
    /\ UNCHANGED app_vars
    /\ UNCHANGED improve_vars
    /\ UNCHANGED <<doc, page_range, target, pages, inputs, new_inputs, idx,
                   page, sl_pages, outputs, pc>>

\* documents of at most n RawPages of one word each, a marker between them
RECURSIVE PoolDocs(_)
PoolDocs(n) ==
    IF n = 0 THEN {<<>>}
    ELSE LET S == PoolDocs(n - 1)
         IN  S \cup {IF d = <<>> THEN <<"a">> ELSE d \o Marker \o <<"a">> :
                        d \in S}

\* up to one RawPage more than there are workers
InitPool ==
    /\ doc \in PoolDocs(MaxWorkers + 1)
    /\ target \in 1..MaxTarget
    /\ Start

\* a Unit of these documents has one word, which no target puts over the
\* threshold of the post-pass: split_long_page is not entered
NextPool ==
    \/ ChunkIntoPages
    \/ GreedyPass
    \/ PostPassKeep
    \/ Submit
    \/ \E i \in 1..Len(inputs) : StartCall(i)
    \/ \E i \in 1..Len(inputs) : FinishCall(i)
    \/ RaiseError
    \/ Collect

SpecPool == InitPool /\ [][NextPool]_vars

----------------------------------------------------------------------------
(* The static export: export_audiobook.main from the page loop on, over    *)
(* the pages AudioBookApp renders.  A href value and a file name are       *)
(* sequences of strings: one-character strings, and ".html" and "index"    *)
(* kept whole.                                                             *)

Digit(d) == <<"0", "1", "2", "3", "4", "5", "6", "7", "8", "9">>[d + 1]

\* f"{n}" for an integer n >= 0
RECURSIVE Str(_)
Str(n) == IF n < 10 THEN <<Digit(n)>> ELSE Append(Str(n \div 10), Digit(n % 10))

IsDecimal(s) == s # <<>> /\ \A i \in 1..Len(s) : s[i] \in {Digit(d) : d \in 0..9}

\* the href values of the html of page /i of a book of n pages: the nearby
\* pages of the side menu, the links of _create_navigation, and the anchor
\* of a heading
PageHrefs(i, n) ==
    {<<"/">> \o Str(p) : p \in Max(0, i - 5)..(Min(n, i + 6) - 1)}
        \cup (IF i > 0 THEN {<<"/">> \o Str(i - 1)} ELSE {})
        \cup (IF i < n - 1 THEN {<<"/">> \o Str(i + 1)} ELSE {})
        \cup {<<"#", "h">>}

\* re.sub(r'href="/(\d+)"', repl_href, html) on one href value
ReplHref(h) ==
    IF Len(h) >= 2 /\ h[1] = "/" /\ IsDecimal(Tail(h))
    THEN (IF Tail(h) = <<"0">> THEN <<"index", ".html">>
          ELSE Append(Tail(h), ".html"))
    ELSE h

\* variant of FileName: page 0 is written as 0.html too
FileNameNumbered(i) == Append(Str(i), ".html")

\* filename = "index.html" if idx == 0 else f"{idx}.html"
FileName(i) == IF i = 0 THEN <<"index", ".html">> ELSE Append(Str(i), ".html")

\* one iteration of the page loop: the page is fetched, its links are
\* rewritten, the file is written
ExportPage ==
    /\ pc = "export"
    /\ export_idx < Len(items)
    /\ written' = written \cup {FileName(export_idx)}
    /\ links' = Append(links, [file |-> FileName(export_idx),
                               hrefs |-> {ReplHref(h) :
                                   h \in PageHrefs(export_idx, Len(items))}])
    /\ export_idx' = export_idx + 1
    /\ UNCHANGED caller_vars
    /\ UNCHANGED sound_vars
    /\ UNCHANGED app_vars
    /\ UNCHANGED improve_vars
    /\ UNCHANGED <<doc, page_range, target, pages, inputs, new_inputs, idx,
                   page, sl_pages, run_outputs, calls, completed, outputs, pc>>

\* the page loop ends
ExportDone ==
    /\ pc = "export"
    /\ export_idx = Len(items)
    /\ pc' = "exported"
    /\ UNCHANGED caller_vars
    /\ UNCHANGED export_vars
    /\ UNCHANGED sound_vars
    /\ UNCHANGED app_vars
    /\ UNCHANGED improve_vars
    /\ UNCHANGED <<doc, page_range, target, pages, inputs, new_inputs, idx,
                   page, sl_pages, run_outputs, calls, completed, outputs>>

\* a book of n pages, made by from_txt, audio generated
InitExport ==
    /\ \E n \in 0..MaxBook : items = [k \in 1..n |-> Item(<<"a">>)]
    /\ doc = <<>>
    /\ page_range = None
    /\ target = 1
    /\ pages = <<>>
    /\ inputs = <<>>
    /\ new_inputs = <<>>
    /\ idx = 1
    /\ page = <<>>
    /\ sl_pages = <<>>
    /\ run_outputs = <<>>
    /\ calls = <<>>
    /\ completed = <<>>
    /\ outputs = <<>>
    /\ pc = "export"
    /\ entry = "from_txt"
    /\ page_rage = None
    /\ export_idx = 0
    /\ written = {}
    /\ links = <<>>
    /\ improve = <<>>
    /\ response = NoResponse
    /\ SoundIdle

NextExport == ExportPage \/ ExportDone

SpecExport == InitExport /\ [][NextExport]_vars

----------------------------------------------------------------------------
(* AudioBookGenerator.improve_transcript: multi_thread runs                *)
(* process_one_item_3times on every item, each in its own worker.          *)

\* what text_improver(text=x) comes back with when it returns
Improved(x) == [improve_transcript |-> <<"T">> \o x,
                improve_markdown |-> <<"M">> \o x]

\* item["improved_text"] = v
WithImprovedText(it, v) ==
    [text |-> it.text, text_md |-> it.text_md, improved_text |-> v]

\* an except branch that sets improved_text only where it is missing
FallbackKeepTranscript(it) ==
    IF "improved_text" \in DOMAIN it THEN it
    ELSE WithImprovedText(it, it.text_md)

\* the except branch of process_one_item
Fallback(it) == WithImprovedText(it, it.text_md)

\* a worker that has entered process_one_item_3times: i is the variable of
\* its loop, tries counts the calls of process_one_item, calls those of
\* text_improver, failed tells whether one of them raised, before is the
\* item as the worker received it
Worker(it) == [pc |-> "first_call", i |-> 0, tries |-> 1, calls |-> 0,
               failed |-> FALSE, before |-> it]

\* improve_transcript up to the call of multi_thread
ImproveSubmit ==
    /\ pc = "improve_transcript"
    /\ improve' = [k \in 1..Len(items) |-> Worker(items[k])]
    /\ pc' = "improving"
    /\ UNCHANGED caller_vars
    /\ UNCHANGED export_vars
    /\ UNCHANGED sound_vars
    /\ UNCHANGED app_vars
    /\ UNCHANGED <<doc, page_range, target, pages, inputs, new_inputs, idx,
                   page, sl_pages, run_outputs, calls, completed, outputs>>

\* line 71 for item k: the first text_improver call returns, or it raises
\* and the except branch runs, after which process_one_item returns the
\* item and the loop of process_one_item_3times returns it
FirstImproverCall(k) ==
    /\ pc = "improving"
    /\ improve[k].pc = "first_call"
    /\ \/ /\ items' = [items EXCEPT ![k] = WithImprovedText(items[k],
                            Improved(items[k].text_md).improve_transcript)]
          /\ improve' = [improve EXCEPT ![k].pc = "second_call",
                                         ![k].calls = @ + 1]
       \/ /\ items' = [items EXCEPT ![k] = Fallback(items[k])]
          /\ improve' = [improve EXCEPT ![k].pc = "returned",
                                         ![k].calls = @ + 1,
                                         ![k].failed = TRUE]
    /\ UNCHANGED <<entry, page_rage>>
    /\ UNCHANGED export_vars
    /\ UNCHANGED sound_vars
    /\ UNCHANGED app_vars
    /\ UNCHANGED <<doc, page_range, target, pages, inputs, new_inputs, idx,
                   page, sl_pages, run_outputs, calls, completed, outputs, pc>>

\* line 74 for item k: the second text_improver call returns, or it raises
\* and the except branch runs; either way the item is returned
SecondImproverCall(k) ==
    /\ pc = "improving"
    /\ improve[k].pc = "second_call"
    /\ \/ /\ items' = [items EXCEPT ![k].text_md =
                            Improved(items[k].text_md).improve_markdown]
          /\ improve' = [improve EXCEPT ![k].pc = "returned",
                                         ![k].calls = @ + 1]
       \/ /\ items' = [items EXCEPT ![k] = Fallback(items[k])]
          /\ improve' = [improve EXCEPT ![k].pc = "returned",
                                         ![k].calls = @ + 1,
                                         ![k].failed = TRUE]
    /\ UNCHANGED <<entry, page_rage>>
    /\ UNCHANGED export_vars
    /\ UNCHANGED sound_vars
    /\ UNCHANGED app_vars
    /\ UNCHANGED <<doc, page_range, target, pages, inputs, new_inputs, idx,
                   page, sl_pages, run_outputs, calls, completed, outputs, pc>>

\* every worker returned: self.items = the list multi_thread returns
ImproveCollect ==
    /\ pc = "improving"
    /\ \A k \in 1..Len(items) : improve[k].pc = "returned"
    /\ items' = [k \in 1..Len(items) |-> items[Slot(k, <<>>)]]
    /\ pc' = "improved"
    /\ UNCHANGED <<entry, page_rage>>
    /\ UNCHANGED export_vars
    /\ UNCHANGED sound_vars
    /\ UNCHANGED app_vars
    /\ UNCHANGED improve_vars
    /\ UNCHANGED <<doc, page_range, target, pages, inputs, new_inputs, idx,
                   page, sl_pages, run_outputs, calls, completed, outputs>>

\* __init__ lines 39-50: text_md is the text itself, or the markdown the
\* formatter made of it
InitItems == {[text |-> t, text_md |-> m] :
                 t \in {<<"a">>, <<"b">>}, m \in {<<"a">>, <<"#", "a">>}}

\* the item lists of at most n items
RECURSIVE ItemLists(_)
ItemLists(n) ==
    IF n = 0 THEN {<<>>}
    ELSE LET S == ItemLists(n - 1)
         IN  S \cup {Append(l, it) : l \in S, it \in InitItems}

\* a generator whose items have text and text_md
InitImprove ==
    /\ items \in ItemLists(MaxItems)
    /\ doc = <<>>
    /\ page_range = None
    /\ target = 1
    /\ pages = <<>>
    /\ inputs = <<>>
    /\ new_inputs = <<>>
    /\ idx = 1
    /\ page = <<>>
    /\ sl_pages = <<>>
    /\ run_outputs = <<>>
    /\ calls = <<>>
    /\ completed = <<>>
    /\ outputs = <<>>
    /\ pc = "improve_transcript"
    /\ entry = "from_txt"
    /\ page_rage = None
    /\ export_idx = 0
    /\ written = {}
    /\ links = <<>>
    /\ improve = <<>>
    /\ response = NoResponse
    /\ SoundIdle

NextImprove ==
    \/ ImproveSubmit
    \/ \E k \in 1..Len(items) : FirstImproverCall(k)
    \/ \E k \in 1..Len(items) : SecondImproverCall(k)
    \/ ImproveCollect

SpecImprove == InitImprove /\ [][NextImprove]_vars

----------------------------------------------------------------------------
(* audiobook_app: extract_headings_and_assign_ids, AudioBookApp.__init__   *)
(* and the page route.  A markdown text is a sequence of one-character     *)
(* strings with "\n" between its lines; the pieces of a generated tag are  *)
(* kept whole.                                                             *)

\* md_text.splitlines()
RECURSIVE SplitLinesFrom(_, _, _)
SplitLinesFrom(s, i, start) ==
    IF i > Len(s)
    THEN (IF start > Len(s) THEN <<>> ELSE <<SubSeq(s, start, Len(s))>>)
    ELSE IF s[i] = "\n"
         THEN <<SubSeq(s, start, i - 1)>> \o SplitLinesFrom(s, i + 1, i + 1)
         ELSE SplitLinesFrom(s, i + 1, start)

SplitLines(s) == SplitLinesFrom(s, 1, 1)

\* "\n".join(lines)
RECURSIVE JoinLines(_)
JoinLines(ls) ==
    IF ls = <<>> THEN <<>>
    ELSE IF Len(ls) = 1 THEN ls[1]
    ELSE ls[1] \o <<"\n">> \o JoinLines(Tail(ls))

\* the number of "#" the line starts with
RECURSIVE Hashes(_)
Hashes(line) ==
    IF line # <<>> /\ Head(line) = "#" THEN 1 + Hashes(Tail(line)) ELSE 0

\* the level of re.match(r'^(#{1,2})\s+(.*)$', line), 0 when there is no
\* match
Level(line) ==
    LET n == Hashes(line)
    IN  IF n \in {1, 2} /\ Len(line) > n /\ IsSpace(line[n + 1]) THEN n ELSE 0

\* match.group(2).strip()
HeadingText(line) == Strip(SubSeq(line, Level(line) + 1, Len(line)))

IsAlnum(c) == c \in {"a", "b"} \/ IsDigit(c)

\* re.sub(r'[^a-zA-Z0-9]+', '-', text)
RECURSIVE SubNonAlnum(_)
SubNonAlnum(text) ==
    IF text = <<>> THEN <<>>
    ELSE IF IsAlnum(Head(text)) THEN <<Head(text)>> \o SubNonAlnum(Tail(text))
    ELSE IF Len(text) > 1 /\ ~IsAlnum(text[2]) THEN SubNonAlnum(Tail(text))
    ELSE <<"-">> \o SubNonAlnum(Tail(text))

\* s.strip('-')
RECURSIVE StripHyphens(_)
StripHyphens(s) ==
    IF s = <<>> THEN s
    ELSE IF Head(s) = "-" THEN StripHyphens(Tail(s))
    ELSE IF s[Len(s)] = "-" THEN StripHyphens(SubSeq(s, 1, Len(s) - 1))
    ELSE s

HeadingId(text) == StripHyphens(SubNonAlnum(text))

\* the (heading_text, heading_id, level) of a heading line
Heading(line) ==
    <<HeadingText(line), HeadingId(HeadingText(line)), Level(line)>>

\* the line new_lines receives
NewLine(line) ==
    IF Level(line) = 0 THEN line
    ELSE <<"<h", Digit(Level(line)), " id=\"">> \o HeadingId(HeadingText(line))
            \o <<"\">">> \o HeadingText(line)
            \o <<"</h", Digit(Level(line)), ">">>

RECURSIVE HeadingsOf(_)
HeadingsOf(ls) ==
    IF ls = <<>> THEN <<>>
    ELSE (IF Level(Head(ls)) = 0 THEN <<>> ELSE <<Heading(Head(ls))>>)
            \o HeadingsOf(Tail(ls))

\* extract_headings_and_assign_ids(md_text)
extract_headings_and_assign_ids(md_text) ==
    LET ls == SplitLines(md_text)
    IN  <<JoinLines([k \in 1..Len(ls) |-> NewLine(ls[k])]), HeadingsOf(ls)>>

\* the page_title the second loop of __init__ gives page i (from 1), hs
\* being the headings of every page
RECURSIVE PageTitle(_, _)
PageTitle(hs, i) ==
    IF hs[i] # <<>> THEN hs[i][1][1]
    ELSE IF i > 1 THEN PageTitle(hs, i - 1)
    ELSE <<>>

\* the items after both loops of AudioBookApp.__init__
Titled(its) ==
    LET ex == [k \in 1..Len(its) |->
                  extract_headings_and_assign_ids(its[k].text_md)]
        hs == [k \in 1..Len(its) |-> ex[k][2]]
    IN  [k \in 1..Len(its) |->
            [text |-> its[k].text, text_md |-> ex[k][1],
             headings |-> hs[k], page_title |-> PageTitle(hs, k)]]

\* AudioBookApp(audio_book, book_name)
AppConstruct ==
    /\ pc = "app"
    /\ items' = Titled(items)
    /\ pc' = "serving"
    /\ UNCHANGED <<entry, page_rage>>
    /\ UNCHANGED export_vars
    /\ UNCHANGED sound_vars
    /\ UNCHANGED improve_vars
    /\ UNCHANGED app_vars
    /\ UNCHANGED <<doc, page_range, target, pages, inputs, new_inputs, idx,
                   page, sl_pages, run_outputs, calls, completed, outputs>>

\* int(s) for a decimal s
RECURSIVE ParseInt(_)
ParseInt(s) ==
    IF s = <<>> THEN 0
    ELSE 10 * ParseInt(SubSeq(s, 1, Len(s) - 1))
            + (CHOOSE d \in 0..9 : Digit(d) = s[Len(s)])

\* _create_navigation(idx), as the hrefs of Previous and Next (empty for a
\* link that is not shown)
Navigation(i, n) ==
    [prev |-> IF i > 0 THEN <<"/">> \o Str(i - 1) ELSE <<>>,
     next |-> IF i < n - 1 THEN <<"/">> \o Str(i + 1) ELSE <<>>]

\* the hrefs of the nearby pages of the side menu
Nearby(i, n) ==
    {<<"/">> \o Str(p) : p \in Max(0, i - 5)..(Min(n, i + 6) - 1)}

\* a page route that serves index len(items) too
PageUpToLen(i, n) ==
    IF ~(0 <= i /\ i <= n) THEN [status |-> 404]
    ELSE [status |-> 200, idx |-> i, nav |-> Navigation(i, n),
          nearby |-> Nearby(i, n)]

\* page(idx) on a book of n pages
Page(i, n) ==
    IF ~(0 <= i /\ i < n) THEN [status |-> 404]
    ELSE [status |-> 200, idx |-> i, nav |-> Navigation(i, n),
          nearby |-> Nearby(i, n)]

\* the answer to GET path: home redirects to /0, /{idx:int} goes to page
Answer(path, n) ==
    IF path = <<"/">> THEN Page(0, n) ELSE Page(ParseInt(Tail(path)), n)

\* the paths a user types: the home page and the page indexes around the
\* book's
Typed(n) == {<<"/">>} \cup {<<"/">> \o Str(i) : i \in 0..(n + 1)}

\* the links of the page on display that lead to a page
Links(r) ==
    IF r.status # 200 THEN {}
    ELSE r.nearby \cup ({r.nav.prev, r.nav.next} \ {<<>>})

\* a request typed into the address bar; fromHome tells whether the browser
\* came to the page on display from page 0 by links alone
Request(path) ==
    /\ pc = "serving"
    /\ response' = [path |-> path, via |-> "typed",
                    fromHome |-> path \in {<<"/">>, <<"/", "0">>},
                    page |-> Answer(path, Len(items))]
    /\ UNCHANGED caller_vars
    /\ UNCHANGED export_vars
    /\ UNCHANGED sound_vars
    /\ UNCHANGED improve_vars
    /\ UNCHANGED <<doc, page_range, target, pages, inputs, new_inputs, idx,
                   page, sl_pages, run_outputs, calls, completed, outputs, pc>>

\* a click on a link of the page on display
Follow(path) ==
    /\ pc = "serving"
    /\ path \in Links(response.page)
    /\ response' = [path |-> path,
                    via |-> IF path = response.page.nav.next THEN "next"
                            ELSE "link",
                    fromHome |-> response.fromHome,
                    page |-> Answer(path, Len(items))]
    /\ UNCHANGED caller_vars
    /\ UNCHANGED export_vars
    /\ UNCHANGED sound_vars
    /\ UNCHANGED improve_vars
    /\ UNCHANGED <<doc, page_range, target, pages, inputs, new_inputs, idx,
                   page, sl_pages, run_outputs, calls, completed, outputs, pc>>

\* the markdown of a page
PageMds ==
    { <<>>,
      <<"a">>,
      <<"#", " ", "a">>,
      <<"#", "#", " ", "b">>,
      <<"#", "#", "#", " ", "a">>,
      <<"#", "a">>,
      <<"a", "\n", "#", " ", "b", " ", "a">>,
      <<"#", " ", "a", "\n", "#", "#", " ", "b">> }

\* the item lists of 1 to n items
RECURSIVE Books(_)
Books(n) ==
    IF n = 0 THEN {<<>>}
    ELSE LET S == Books(n - 1)
         IN  S \cup {Append(l, [text |-> <<"a">>, text_md |-> m]) :
                        l \in S, m \in PageMds}

\* the books of up to MaxBook pages of plain text
LongBooks ==
    {[k \in 1..n |-> [text |-> <<"a">>, text_md |-> <<"a">>]] : n \in 1..MaxBook}

\* a generator handed to AudioBookApp
InitApp ==
    /\ items \in (Books(MaxAppPages) \ {<<>>}) \cup LongBooks
    /\ doc = <<>>
    /\ page_range = None
    /\ target = 1
    /\ pages = <<>>
    /\ inputs = <<>>
    /\ new_inputs = <<>>
    /\ idx = 1
    /\ page = <<>>
    /\ sl_pages = <<>>
    /\ run_outputs = <<>>
    /\ calls = <<>>
    /\ completed = <<>>
    /\ outputs = <<>>
    /\ pc = "app"
    /\ entry = "from_txt"
    /\ page_rage = None
    /\ export_idx = 0
    /\ written = {}
    /\ links = <<>>
    /\ improve = <<>>
    /\ response = NoResponse
    /\ SoundIdle

NextApp ==
    \/ AppConstruct
    \/ \E path \in Typed(Len(items)) : Request(path)
    \/ \E path \in Links(response.page) : Follow(path)

SpecApp == InitApp /\ [][NextApp]_vars

----------------------------------------------------------------------------
(* clipboard_sound: PlaySoundInThread, TextToSpeechManager.  The main      *)
(* thread runs monitor_clipboard; every call of play starts a _play thread *)
(* and a _check_to_interrupt thread.  Threads interleave statement by      *)
(* statement.                                                              *)

\* clipboard_sound touches nothing of the audiobook pipeline
PipelineUnchanged ==
    /\ UNCHANGED caller_vars
    /\ UNCHANGED export_vars
    /\ UNCHANGED improve_vars
    /\ UNCHANGED app_vars
    /\ UNCHANGED <<doc, page_range, target, pages, inputs, new_inputs, idx,
                   page, sl_pages, run_outputs, calls, completed, outputs, pc>>

\* pyperclip.paste().strip()
Paste == Strip(clipboard)

\* the _play threads that are inside playsound
Sounding == {t \in 1..Len(threads) : threads[t].pc = "playsound"}

\* the user copies a text
Copy(text) ==
    /\ pc = "monitor"
    /\ text # clipboard
    /\ clipboard' = text
    /\ pending' = (pending \/ (Sounding # {} /\ Strip(text) # Paste))
    /\ UNCHANGED <<latest_text, playing, main, file, threads, watchers,
                   spoken>>
    /\ PipelineUnchanged

\* a test that lets an empty clipboard through
ShouldSpeakEmpty(current_text, latest) == current_text # latest

\* line 150: if current_text and current_text != self.latest_text
ShouldSpeak(current_text, latest) ==
    current_text # <<>> /\ current_text # latest

\* lines 145-150 of monitor_clipboard: the clipboard is read and tested
MonitorPoll ==
    /\ pc = "monitor"
    /\ main.pc = "poll"
    /\ IF ShouldSpeak(Paste, latest_text)
       THEN /\ Len(threads) < MaxPlays
            /\ main' = [main EXCEPT !.pc = "interrupt", !.text = Paste]
       ELSE main' = [main EXCEPT !.pc = "sleep"]
    /\ UNCHANGED <<clipboard, latest_text, playing, file, threads, watchers,
                   spoken, pending>>
    /\ PipelineUnchanged

\* line 155: time.sleep(POLLING_INTERVAL), then the next poll
MonitorSleep ==
    /\ pc = "monitor"
    /\ main.pc = "sleep"
    /\ main' = [main EXCEPT !.pc = "poll"]
    /\ UNCHANGED <<clipboard, latest_text, playing, file, threads, watchers,
                   spoken, pending>>
    /\ PipelineUnchanged

\* lines 151-152: sound_player.interrupt(); self.latest_text = current_text.
\* interrupt() clears playing; play_obj is None and its two joins give up
\* after 0.1 s, so it changes nothing else
MonitorInterrupt ==
    /\ pc = "monitor"
    /\ main.pc = "interrupt"
    /\ playing' = FALSE
    /\ pending' = FALSE
    /\ latest_text' = main.text
    /\ main' = [main EXCEPT !.pc = "text_to_speech"]
    /\ UNCHANGED <<clipboard, file, threads, watchers, spoken>>
    /\ PipelineUnchanged

\* line 153 and text_to_speech up to its loop: the pipeline makes n chunks
\* of the text
TextToSpeech(n) ==
    /\ pc = "monitor"
    /\ main.pc = "text_to_speech"
    /\ Len(threads) + n <= MaxPlays
    /\ spoken' = Append(spoken, main.text)
    /\ main' = [main EXCEPT !.pc = "wait", !.k = 1, !.n = n]
    /\ UNCHANGED <<clipboard, latest_text, playing, file, threads, watchers,
                   pending>>
    /\ PipelineUnchanged

\* line 115: while sound_player.playing is seen false
ChunkWait ==
    /\ pc = "monitor"
    /\ main.pc = "wait"
    /\ ~playing
    /\ main' = [main EXCEPT !.pc = "save"]
    /\ UNCHANGED <<clipboard, latest_text, playing, file, threads, watchers,
                   spoken, pending>>
    /\ PipelineUnchanged

\* output_path.write_bytes(buffer.getvalue())
Save(f, chunk) == chunk

\* _save_and_play_audio and play: the chunk is written to sound.wav, play
\* interrupts if playing is set, then starts the two threads; after the
\* last chunk text_to_speech returns to the polling loop
SaveAndPlay ==
    /\ pc = "monitor"
    /\ main.pc = "save"
    /\ file' = Save(file, <<Len(spoken), main.k>>)
    /\ playing' = FALSE
    /\ pending' = IF playing THEN FALSE ELSE pending
    /\ threads' = Append(threads, [pc |-> "start", sound |-> <<>>,
                                    chunk |-> <<Len(spoken), main.k>>])
    /\ watchers' = Append(watchers, [pc |-> "start", v |-> <<>>])
    /\ main' = IF main.k < main.n
               THEN [main EXCEPT !.pc = "wait", !.k = @ + 1]
               ELSE [main EXCEPT !.pc = "sleep"]
    /\ UNCHANGED <<clipboard, latest_text, spoken>>
    /\ PipelineUnchanged

\* _play, lines 35-37: self.playing = True, then playsound opens sound.wav
\* and starts to sound what the file holds now
PlayStart(t) ==
    /\ pc = "monitor"
    /\ threads[t].pc = "start"
    /\ playing' = TRUE
    /\ threads' = [threads EXCEPT ![t].pc = "playsound", ![t].sound = file]
    /\ UNCHANGED <<clipboard, latest_text, main, file, watchers, spoken,
                   pending>>
    /\ PipelineUnchanged

\* _play, lines 37-40: playsound returns at the end of the sound; finally
\* playing is cleared
PlaysoundEnd(t) ==
    /\ pc = "monitor"
    /\ threads[t].pc = "playsound"
    /\ playing' = FALSE
    /\ threads' = [threads EXCEPT ![t].pc = "done", ![t].sound = <<>>]
    /\ UNCHANGED <<clipboard, latest_text, main, file, watchers, spoken,
                   pending>>
    /\ PipelineUnchanged

\* _check_to_interrupt, line 44: v = pyperclip.paste().strip()
WatcherStart(w) ==
    /\ pc = "monitor"
    /\ watchers[w].pc = "start"
    /\ watchers' = [watchers EXCEPT ![w].pc = "loop", ![w].v = Paste]
    /\ UNCHANGED <<clipboard, latest_text, playing, main, file, threads,
                   spoken, pending>>
    /\ PipelineUnchanged

\* _check_to_interrupt, line 45: playing is seen false and the thread ends
WatcherExit(w) ==
    /\ pc = "monitor"
    /\ watchers[w].pc = "loop"
    /\ ~playing
    /\ watchers' = [watchers EXCEPT ![w].pc = "done", ![w].v = <<>>]
    /\ UNCHANGED <<clipboard, latest_text, playing, main, file, threads,
                   spoken, pending>>
    /\ PipelineUnchanged

\* _check_to_interrupt, lines 45-50: playing is seen true and the clipboard
\* differs from v: interrupt() and break (with the clipboard unchanged the
\* thread sleeps and looks again, which changes nothing)
WatcherInterrupt(w) ==
    /\ pc = "monitor"
    /\ watchers[w].pc = "loop"
    /\ playing
    /\ Paste # watchers[w].v
    /\ playing' = FALSE
    /\ pending' = FALSE
    /\ watchers' = [watchers EXCEPT ![w].pc = "done", ![w].v = <<>>]
    /\ UNCHANGED <<clipboard, latest_text, main, file, threads, spoken>>
    /\ PipelineUnchanged

\* what the user may copy
Clips == {<<>>, <<"a">>, <<" ", "a">>, <<"b">>}

\* clipboard_sound started: main() has called monitor_clipboard
InitSound ==
    /\ SoundIdle
    /\ doc = <<>>
    /\ page_range = None
    /\ target = 1
    /\ pages = <<>>
    /\ inputs = <<>>
    /\ new_inputs = <<>>
    /\ idx = 1
    /\ page = <<>>
    /\ sl_pages = <<>>
    /\ run_outputs = <<>>
    /\ calls = <<>>
    /\ completed = <<>>
    /\ outputs = <<>>
    /\ pc = "monitor"
    /\ entry = "clipboard_sound"
    /\ page_rage = None
    /\ items = <<>>
    /\ export_idx = 0
    /\ written = {}
    /\ links = <<>>
    /\ improve = <<>>
    /\ response = NoResponse

NextSound ==
    \/ \E text \in Clips : Copy(text)
    \/ MonitorPoll
    \/ MonitorSleep
    \/ MonitorInterrupt
    \/ \E n \in 1..MaxChunks : TextToSpeech(n)
    \/ ChunkWait
    \/ SaveAndPlay
    \/ \E t \in 1..Len(threads) : PlayStart(t)
    \/ \E t \in 1..Len(threads) : PlaysoundEnd(t)
    \/ \E w \in 1..Len(watchers) : WatcherStart(w)
    \/ \E w \in 1..Len(watchers) : WatcherExit(w)
    \/ \E w \in 1..Len(watchers) : WatcherInterrupt(w)

SpecSound == InitSound /\ [][NextSound]_vars

\* every thread that can take a step eventually takes one; the user is
\* under no obligation to copy anything
FairSound ==
    /\ WF_vars(MonitorPoll)
    /\ WF_vars(MonitorSleep)
    /\ WF_vars(MonitorInterrupt)
    /\ WF_vars(\E n \in 1..MaxChunks : TextToSpeech(n))
    /\ WF_vars(ChunkWait)
    /\ WF_vars(SaveAndPlay)
    /\ \A t \in 1..MaxPlays :
        /\ WF_vars(t <= Len(threads) /\ PlayStart(t))
        /\ WF_vars(t <= Len(threads) /\ PlaysoundEnd(t))
        /\ WF_vars(t <= Len(watchers) /\ WatcherStart(t))
        /\ WF_vars(t <= Len(watchers) /\ WatcherExit(t))
        /\ WF_vars(t <= Len(watchers) /\ WatcherInterrupt(t))

SpecSoundFair == SpecSound /\ FairSound

----------------------------------------------------------------------------
(* The marker splitter alone: lines 22-31 of chunk_into_pages applied to a *)
(* document, the pages kept for inspection.                                *)

InitMarker ==
    /\ doc \in Docs(MaxDocLen) \cup Tokens(MaxTokLen)
    /\ target = 1
    /\ Start

NextMarker == ChunkIntoPages

SpecMarker == InitMarker /\ [][NextMarker]_vars

----------------------------------------------------------------------------
(* The marker splitter on documents that mix text, markers with different  *)
(* integers and marker-like tokens that the pattern does not match.        *)

\* tokens that look like a marker and are none: second integer missing, no
\* hyphen, a signed integer, suffix missing
MarkerLike == {<<"<", "0", "-", ">">>, <<"<", "0", "0", ">">>,
               <<"<", "-", "0", "-", "0", ">">>, <<"<", "0", "-", "0">>}

TokenAtoms == {<<"a">>, <<" ">>, Marker, <<"<", "1", "-", "0", ">">>}
                \cup MarkerLike

\* documents made of at most n of these atoms
RECURSIVE TokenDocs(_)
TokenDocs(n) ==
    IF n = 0 THEN {<<>>}
    ELSE LET S == TokenDocs(n - 1)
         IN  S \cup {d \o a : d \in S, a \in TokenAtoms}

InitToken ==
    /\ doc \in TokenDocs(MaxAtoms)
    /\ target = 1
    /\ Start

SpecToken == InitToken /\ [][NextMarker]_vars

----------------------------------------------------------------------------
(* Vocabulary of the properties *)

RECURSIVE Concat(_)
Concat(ss) == IF ss = <<>> THEN <<>> ELSE Head(ss) \o Concat(Tail(ss))

Texts(cs) == [k \in 1..Len(cs) |-> cs[k].text]

NoSpaces(s) == SelectSeq(s, LAMBDA c : ~IsSpace(c))

Units == 1..Len(inputs)

Dispatched == pc \in {"dispatch", "done", "raised"}

\* the call of Unit i returned chunks that together are the Unit's text
Covering(i) ==
    /\ calls[i].state = "returned"
    /\ Concat(Texts(calls[i].output_chunks)) = inputs[i]

\* number of chunks returned for the Units before Unit i
RECURSIVE Offset(_)
Offset(i) ==
    IF i <= 1 THEN 0 ELSE Offset(i - 1) + Len(calls[i - 1].output_chunks)

\* outputs is the chunk lists of Units 1, 2, ... one after the other
InUnitOrder ==
    /\ Len(outputs) = Offset(Len(inputs) + 1)
    /\ \A i \in Units : \A k \in 1..Len(calls[i].output_chunks) :
        /\ outputs[Offset(i) + k].text = calls[i].output_chunks[k].text
        /\ outputs[Offset(i) + k].title = calls[i].output_chunks[k].title

\* a hard split has run to its end for some Unit
HardSplitDone == Dispatched /\ Len(inputs) > Len(Greedy(pages, target))

----------------------------------------------------------------------------
(* C1  Coverage.  At every point of the balancer the text still to be      *)
(* emitted, in order, is the concatenation of the RawPages; and when every *)
(* split_text call returned chunks whose concatenation is its Unit's text, *)
(* the concatenation of the output chunk texts is the concatenation of the *)
(* RawPages: no character is dropped or duplicated.                        *)

C1_Coverage ==
    /\ pc = "postpass" =>
         Concat(new_inputs) \o Concat(SubSeq(inputs, idx, Len(inputs)))
            = Concat(pages)
    /\ pc = "split" =>
         Concat(new_inputs) \o Concat(sl_pages) \o page
            \o Concat(SubSeq(inputs, idx + 1, Len(inputs))) = Concat(pages)
    /\ (pc = "dispatch" /\ completed = <<>>) => Concat(inputs) = Concat(pages)
    /\ pc = "done" => Concat(inputs) = Concat(pages)
    /\ (pc = "done" /\ \A i \in Units : Covering(i)) =>
         Concat(Texts(outputs)) = Concat(pages)

C1_Witness ==
    /\ pc = "done"
    /\ HardSplitDone
    /\ \A i \in Units : Covering(i)
    /\ \E i \in Units : Len(calls[i].output_chunks) = 2
    /\ Len(pages) >= 2

----------------------------------------------------------------------------
(* C2  Order preservation.  The returned list is the chunk list of Unit 1, *)
(* then that of Unit 2, and so on, each list in the order split_text       *)
(* returned it; so a chunk of an earlier Unit precedes every chunk of a    *)
(* later Unit.                                                             *)

C2_OrderPreservation == pc = "done" => InUnitOrder

C2_Witness ==
    /\ pc = "done"
    /\ Len(inputs) >= 3
    /\ inputs[1] # inputs[2]
    /\ Len(calls[1].output_chunks) = 2
    /\ Len(calls[2].output_chunks) = 1
    /\ InUnitOrder

----------------------------------------------------------------------------
(* C3  Determinism under interleaving.  Whatever the order in which the    *)
(* calls complete, the result of the call for Unit i is held at position i *)
(* of the result list, and the returned list is determined by the Units'   *)
(* responses alone.                                                        *)

C3_Determinism ==
    /\ Dispatched => \A i \in Units : run_outputs[i] = calls[i]
    /\ pc = "done" => Texts(outputs) = Concat([i \in Units |->
                                          Texts(calls[i].output_chunks)])

C3_Witness ==
    /\ pc = "done"
    /\ Len(inputs) = 3
    /\ completed = <<3, 1, 2>>
    /\ calls[1] # calls[2]
    /\ calls[2] # calls[3]
    /\ Texts(outputs) = Concat([i \in Units |-> Texts(calls[i].output_chunks)])

----------------------------------------------------------------------------
\* the call of Unit i raised or returned no chunk
FailedCall(i) ==
    \/ calls[i].state = "raised"
    \/ calls[i].state = "returned" /\ calls[i].output_chunks = <<>>

(* C4  Failure policy (as claimed).  When the call for a Unit raises or    *)
(* returns no chunks, the pipeline still ends normally and the output      *)
(* holds an untitled chunk whose text is that Unit's text.                 *)

C4_FailurePolicy ==
    \A i \in Units :
        (pc \in {"done", "raised"} /\ FailedCall(i)) =>
            /\ pc = "done"
            /\ \E k \in 1..Len(outputs) :
                outputs[k].text = inputs[i] /\ outputs[k].title = ""

----------------------------------------------------------------------------
(* C5  Failure isolation (as claimed).  A call that raises for one Unit    *)
(* never makes the pipeline end with an exception: where another Unit's    *)
(* call returned chunks, the pipeline ends normally and the chunks of      *)
(* every such Unit are in the output.                                      *)

C5_FailureIsolation ==
    (/\ pc \in {"done", "raised"}
     /\ \E i \in Units : calls[i].state = "raised"
     /\ \E j \in Units : calls[j].state = "returned"
                            /\ calls[j].output_chunks # <<>>)
        => /\ pc = "done"
           /\ \A j \in Units : calls[j].state = "returned" =>
                \A k \in 1..Len(calls[j].output_chunks) :
                    \E m \in 1..Len(outputs) :
                        outputs[m].text = calls[j].output_chunks[k].text

----------------------------------------------------------------------------
(* C6  Size bound (as claimed).  Every Unit that leaves the balancer has   *)
(* at most 1.5 * target words.                                             *)

C6_SizeBound ==
    Dispatched => \A i \in Units : 2 * word_count(inputs[i]) <= 3 * target

----------------------------------------------------------------------------
(* C7  Hard-split termination (as claimed).  Every iteration of the loop   *)
(* of split_long_page removes a non-empty prefix from the remaining text.  *)

C7_HardSplitProgress ==
    [][(pc = "split" /\ pc' = "split") => Len(page') < Len(page)]_vars

----------------------------------------------------------------------------
(* C8  No empty chunks (as claimed).  No chunk of the returned list has a  *)
(* text that is empty after trimming.                                      *)

C8_NoEmptyChunks ==
    pc = "done" => \A k \in 1..Len(outputs) : Strip(outputs[k].text) # <<>>

----------------------------------------------------------------------------
(* Markers described position by position *)

\* text[i..j] is one marker: prefix, digits, hyphen, digits, suffix
IsMarkerAt(text, i, j) ==
    /\ i < j
    /\ text[i] = "<"
    /\ text[j] = ">"
    /\ \E m \in (i + 2)..(j - 2) :
        /\ text[m] = "-"
        /\ \A k \in (i + 1)..(m - 1) : IsDigit(text[k])
        /\ \A k \in (m + 1)..(j - 1) : IsDigit(text[k])

\* the positions of text that lie inside a marker
MarkerPositions(text) ==
    LET n == Len(text)
        M == {m \in (1..n) \X (1..n) : IsMarkerAt(text, m[1], m[2])}
    IN  {p \in 1..n : \E m \in M : m[1] <= p /\ p <= m[2]}

HasMarker(text) == MarkerPositions(text) # {}

\* the characters of text outside every marker, in order
NonMarker(text) ==
    LET cov == MarkerPositions(text)
        Keep[p \in 0..Len(text)] ==
            IF p = 0 THEN <<>>
            ELSE IF p \in cov THEN Keep[p - 1]
                 ELSE Append(Keep[p - 1], text[p])
    IN  Keep[Len(text)]

\* text[s..e] is a trimmed stretch between markers (cov the marker
\* positions): it touches no marker, begins and ends with a non-blank, and
\* only blanks separate it from the nearest marker or end of the text on
\* either side
IsRun(text, cov, s, e) ==
    /\ s <= e
    /\ (s..e) \cap cov = {}
    /\ ~IsSpace(text[s])
    /\ ~IsSpace(text[e])
    /\ \A q \in 1..(s - 1) : (q..(s - 1)) \cap cov = {} => IsSpace(text[q])
    /\ \A q \in (e + 1)..Len(text) :
        ((e + 1)..q) \cap cov = {} => IsSpace(text[q])

Runs(text) ==
    LET cov == MarkerPositions(text)
        free == (1..Len(text)) \ cov
    IN  {r \in free \X free : IsRun(text, cov, r[1], r[2])}

(* C9  MarkerSplitter.  The RawPages are, in order, the trimmed non-empty  *)
(* stretches of text between consecutive markers and the document's ends;  *)
(* none contains a marker; together they hold the document's non-marker    *)
(* characters, whitespace aside, each once.                                *)

C9_MarkerSplitter ==
    pc = "greedy" =>
        LET R == Runs(doc)
        IN  /\ Len(pages) = Cardinality(R)
            /\ \A r \in R :
                pages[Cardinality({q \in R : q[1] < r[1]}) + 1]
                    = SubSeq(doc, r[1], r[2])
            /\ \A k \in 1..Len(pages) : ~HasMarker(pages[k])
            /\ NoSpaces(Concat(pages)) = NoSpaces(NonMarker(doc))

C9_Witness ==
    /\ pc = "greedy"
    /\ Len(pages) = 2
    /\ Len(ReSplit(doc)) = 3
    /\ Len(Concat(pages)) < Len(NonMarker(doc))
    /\ pages[1] # pages[2]

----------------------------------------------------------------------------
\* text holds nothing but markers and blanks
Blank(text) == NoSpaces(NonMarker(text)) = <<>>

(* C10  A document without markers that holds text yields the trimmed      *)
(* document as its only RawPage.  A document whose non-marker text is      *)
(* blank yields no RawPage, no split_text call, no exception and an empty  *)
(* chunk list.                                                             *)

C10_ZeroMarkersAndEmpty ==
    /\ (pc = "greedy" /\ ~HasMarker(doc) /\ ~Blank(doc)) =>
         pages = <<Strip(doc)>>
    /\ (pc = "greedy" /\ Blank(doc)) => pages = <<>>
    /\ (pc # "chunk_into_pages" /\ pages = <<>>) =>
         /\ pc \in {"greedy", "postpass", "dispatch", "done"}
         /\ inputs = <<>>
         /\ completed = <<>>
         /\ outputs = <<>>

C10_Witness ==
    /\ pc = "done"
    /\ Blank(doc)
    /\ HasMarker(doc)
    /\ Len(NonMarker(doc)) >= 2
    /\ outputs = <<>>

----------------------------------------------------------------------------
\* the markers of text, each as <<first position, last position>>
Markers(text) ==
    {m \in (1..Len(text)) \X (1..Len(text)) : IsMarkerAt(text, m[1], m[2])}

\* positions of text that hold a piece of marker syntax outside every marker
Stray(text) ==
    {p \in (1..Len(text)) \ MarkerPositions(text) :
        text[p] \in {"<", ">", "-", "0", "1"}}

\* place among the runs R, by position in the text, of the run r
RunRank(R, r) == Cardinality({q \in R : q[1] < r[1]}) + 1

(* C11  A marker-like token that the pattern does not match is not a split *)
(* point: each of its characters lies in the RawPage made of the whole     *)
(* stretch of text around it, and chunk_into_pages gets to repartition.    *)
(* Every token with two integers is a split point whatever the integers:   *)
(* the text before it and the text after it are different RawPages, the    *)
(* one before first.                                                       *)

C11_MalformedMarker ==
    pc = "greedy" =>
        LET R == Runs(doc)
        IN  /\ Len(pages) = Cardinality(R)
            /\ \A p \in Stray(doc) : \E r \in R :
                /\ r[1] <= p /\ p <= r[2]
                /\ pages[RunRank(R, r)] = SubSeq(doc, r[1], r[2])
            /\ \A m \in Markers(doc) : \A r, q \in R :
                (r[2] < m[1] /\ m[2] < q[1]) =>
                    /\ RunRank(R, r) < RunRank(R, q)
                    /\ pages[RunRank(R, r)] = SubSeq(doc, r[1], r[2])
                    /\ pages[RunRank(R, q)] = SubSeq(doc, q[1], q[2])

\* a marker with integer 1 before a marker with integer 0, and two
\* RawPages, one of them holding a marker-like token
C11_Witness ==
    /\ pc = "greedy"
    /\ Len(pages) = 2
    /\ \E m, n \in Markers(doc) :
        m[2] < n[1] /\ doc[m[1] + 1] = "1" /\ doc[n[1] + 1] = "0"
    /\ \E k \in 1..Len(pages) : \E i \in 1..Len(pages[k]) : pages[k][i] = "<"
    /\ Stray(doc) # {}

----------------------------------------------------------------------------
\* the page range the caller asked for, None when it asked for none
Requested == IF entry = "from_large_md" THEN page_rage ELSE page_range

\* the RawPages of the document, before any range is applied
RawPages == MarkerPages(doc, None)

\* the chunk texts the caller ends with
Delivered ==
    IF entry = "from_large_md"
    THEN [k \in 1..Len(items) |-> items[k].text.text]
    ELSE Texts(outputs)

\* the caller has its result
Returned ==
    \/ entry = "from_large_md" /\ pc = "generator"
    \/ entry = "chunk_into_pages" /\ pc = "done"

(* C12  Page-range filter (as claimed).  When the caller asks for the      *)
(* range [start, end), the pages handed to balancing are the RawPages with *)
(* index start <= i < end, in order, on either entry; and when every       *)
(* split_text call returns its Unit's text, the caller's chunks hold the   *)
(* text of these RawPages and nothing else.                                *)

C12_PageRange ==
    Requested # None =>
        LET sel == PySlice(RawPages, Requested[1], Requested[2])
        IN  /\ pc \notin {"from_large_md", "chunk_into_pages"} => pages = sel
            /\ (Returned /\ \A i \in Units : Covering(i)) =>
                    Concat(Delivered) = Concat(sel)

----------------------------------------------------------------------------
\* S, a set of page indices, taken as the indices where a Unit starts:
\* the start of the run that holds page j
RunStart(S, j) == CHOOSE s \in S : s <= j /\ \A q \in S : q <= j => q <= s

\* the last page of the run that starts at s
RunEnd(S, s) ==
    IF \E q \in S : q > s
    THEN (CHOOSE q \in S : q > s /\ \A r \in S : r > s => q <= r) - 1
    ELSE Len(pages)

\* the text of the run that holds page j, from its start through page j
RunThrough(S, j) == Concat(SubSeq(pages, RunStart(S, j), j))

(* C13  Greedy bin-packing.  The Units are, in order, the concatenations   *)
(* of consecutive runs of RawPages that cover the whole sequence; page 1   *)
(* starts the first run, and a later page starts a new run exactly when    *)
(* the word count of the run so far plus its own word count is not below   *)
(* the target, otherwise it joins the run; the last run is a Unit too.     *)

C13_GreedyBinPacking ==
    pc = "postpass" =>
        \E S \in SUBSET (1..Len(pages)) :
            /\ \A j \in 1..Len(pages) :
                j \in S <=>
                    \/ j = 1
                    \/ j > 1 /\ ~(word_count(RunThrough(S, j - 1))
                                    + word_count(pages[j]) < target)
            /\ Len(inputs) = Cardinality(S)
            /\ \A s \in S :
                inputs[Cardinality({q \in S : q <= s})]
                    = Concat(SubSeq(pages, s, RunEnd(S, s)))

\* two pages joined, the Unit closed by a third page that starts the next
C13_Witness ==
    /\ pc = "postpass"
    /\ Len(pages) = 3
    /\ Len(inputs) = 2
    /\ inputs[1] = pages[1] \o pages[2]
    /\ inputs[2] = pages[3]
    /\ word_count(pages[3]) < target

----------------------------------------------------------------------------
\* the word counts of the texts ps, added up
RECURSIVE SumWords(_)
SumWords(ps) ==
    IF ps = <<>> THEN 0 ELSE word_count(Head(ps)) + SumWords(Tail(ps))

(* C14  Word count of a merged Unit (as claimed).  Each Unit is the        *)
(* concatenation of a run of consecutive RawPages and has as many words as *)
(* the pages of its run have together; and three RawPages of one word each *)
(* at target 3 (the scale of three pages of 40 words at target 100) give   *)
(* two Units of 2 words and 1 word.                                        *)

C14_MergedWordCount ==
    pc = "postpass" =>
        /\ \E S \in SUBSET (1..Len(pages)) :
            /\ Len(inputs) = Cardinality(S)
            /\ \A s \in S :
                LET run == SubSeq(pages, s, RunEnd(S, s))
                    u   == inputs[Cardinality({q \in S : q <= s})]
                IN  u = Concat(run) /\ word_count(u) = SumWords(run)
        /\ (target = 3 /\ Len(pages) = 3
                /\ \A k \in 1..3 : word_count(pages[k]) = 1) =>
             [k \in 1..Len(inputs) |-> word_count(inputs[k])] = <<2, 1>>

----------------------------------------------------------------------------
\* positions of text where a word ends
WordEnds(text) ==
    {i \in 1..Len(text) :
        ~IsSpace(text[i]) /\ (i = Len(text) \/ IsSpace(text[i + 1]))}

\* position of the last character of the n-th word of text, the end of the
\* text when it has fewer words
WordEnd(text, n) ==
    LET E == {i \in WordEnds(text) :
                Cardinality({j \in WordEnds(text) : j <= i}) = n}
    IN  IF E = {} THEN Len(text) ELSE CHOOSE i \in E : TRUE

\* the lengths the claim allows for the piece cut from text at target t:
\* up to the last period among the first t words, the period left out or
\* taken in; without such a period, the first t words or the first t
\* characters; in each case the blanks that follow may go with the piece
ClaimedCuts(text, t) ==
    LET w    == WordEnd(text, t)
        dots == {i \in 1..w : text[i] = "."}
        d    == CHOOSE i \in dots : \A j \in dots : j <= i
        base == IF dots # {} THEN {d - 1, d} ELSE {w, Min(t, Len(text))}
    IN  {c \in 0..Len(text) :
            \E b \in base :
                b <= c /\ \A i \in (b + 1)..c : IsSpace(text[i])}

(* C15  Hard-split cut rule (as claimed).  Each iteration of the loop of   *)
(* split_long_page cuts the remaining text at the last period that lies    *)
(* within its first target words, or, when there is none, at the target    *)
(* offset: the piece is the text before the cut, the rest remains.         *)

C15_CutRule ==
    [][(pc = "split" /\ pc' = "split") =>
        \E c \in ClaimedCuts(page, target) :
            /\ sl_pages' = Append(sl_pages, SubSeq(page, 1, c))
            /\ page' = SubSeq(page, c + 1, Len(page))]_vars

----------------------------------------------------------------------------
(* C16  Local pass-through (as claimed).  For a Unit whose word count does *)
(* not exceed the target no split_text call is made, and the returned list *)
(* holds for it one chunk with the Unit's text and an empty title.         *)

C16_LocalPassThrough ==
    Dispatched =>
        \A i \in Units :
            word_count(inputs[i]) <= target =>
                /\ calls[i] = Pending
                /\ pc = "done" =>
                    /\ Len(outputs) = Len(inputs)
                    /\ outputs[i].text = inputs[i]
                    /\ outputs[i].title = ""

----------------------------------------------------------------------------
(* C17  No further mutation (as claimed).  The records the generator holds *)
(* for narration and rendering when from_large_md returns are the chunk    *)
(* records repartition returned: as many, in the same order, each with the *)
(* same title and text.                                                    *)

C17_NoFurtherMutation == pc = "generator" => items = outputs

----------------------------------------------------------------------------
\* a step of the dispatch that starts the call of Unit i
Starts(i) ==
    /\ calls[i] = Pending
    /\ calls'[i] = Running
    /\ run_outputs' = run_outputs

\* a step of the dispatch that ends the call of Unit i and stores its result
\* in slot i
Ends(i) ==
    /\ calls[i] = Running
    /\ calls'[i].state \in {"returned", "raised"}
    /\ run_outputs'[i] = calls'[i]

(* C18  Bounded concurrency.  During dispatch at most MaxWorkers calls are *)
(* in flight.  Every step of the dispatch is the start or the end of one   *)
(* Unit's call: a call starts only for a Unit never started before, it     *)
(* ends only after it started, the step touches no other Unit's call or    *)
(* result slot and leaves the Units as they are.  When the dispatch ends   *)
(* normally every Unit's call has been made and ended exactly once.        *)

C18_BoundedConcurrency ==
    /\ [](pc = "dispatch" => Cardinality(InFlight) <= MaxWorkers)
    /\ [][(pc = "dispatch" /\ pc' = "dispatch") =>
            /\ inputs' = inputs
            /\ \E i \in Units :
                /\ Starts(i) \/ Ends(i)
                /\ \A j \in Units \ {i} :
                    calls'[j] = calls[j] /\ run_outputs'[j] = run_outputs[j]]_vars
    /\ [](pc = "done" =>
            \A i \in Units :
                /\ calls[i].state = "returned"
                /\ Cardinality({k \in 1..Len(completed) : completed[k] = i})
                      = 1)

\* every worker is busy and a Unit waits for one
C18_Witness ==
    /\ pc = "dispatch"
    /\ Cardinality(InFlight) = MaxWorkers
    /\ \E i \in Units : calls[i] = Pending

----------------------------------------------------------------------------
\* h names a page file: it ends with .html
IsPageFile(h) == h # <<>> /\ h[Len(h)] = ".html"

(* C19  Static export link consistency.  When the export of a book of N    *)
(* pages ends, the files written are index.html for page 0 and k.html for  *)
(* each page 0 < k < N, one file per page; no href of the form /k is left  *)
(* in a file; the page links of the file of page i are the file names of   *)
(* the pages the served page linked to; and every page link in every file  *)
(* names a file that was written.                                          *)

C19_ExportLinks ==
    pc = "exported" =>
        LET N == Len(items)
        IN  /\ written = {FileName(k) : k \in 0..(N - 1)}
            /\ Cardinality(written) = N
            /\ Len(links) = N
            /\ \A i \in 1..N :
                /\ links[i].file = FileName(i - 1)
                /\ \A h \in links[i].hrefs : h[1] # "/"
                /\ {h \in links[i].hrefs : IsPageFile(h)}
                     = {FileName(p) : p \in
                          {q \in 0..(N - 1) :
                              <<"/">> \o Str(q) \in PageHrefs(i - 1, N)}}
                /\ \A h \in links[i].hrefs : IsPageFile(h) => h \in written

\* a book of more than ten pages: page 0 is linked from page 1, and a page
\* with a two-digit number is linked and written
C19_Witness ==
    /\ pc = "exported"
    /\ Len(items) > 11
    /\ <<"index", ".html">> \in links[2].hrefs
    /\ <<"1", "1", ".html">> \in links[11].hrefs
    /\ <<"1", "1", ".html">> \in written

----------------------------------------------------------------------------
\* u has more than 1.5 * t words
Over(u, t) == 2 * word_count(u) > 3 * t

\* out is us with every Unit over the threshold replaced, in place, by two
\* or more pieces that together are its text, and every other Unit kept
RECURSIVE Framed(_, _, _)
Framed(us, out, t) ==
    IF us = <<>> THEN out = <<>>
    ELSE IF ~Over(Head(us), t)
         THEN /\ out # <<>>
              /\ Head(out) = Head(us)
              /\ Framed(Tail(us), Tail(out), t)
         ELSE \E n \in 2..Len(out) :
                /\ Concat(SubSeq(out, 1, n)) = Head(us)
                /\ Framed(Tail(us), SubSeq(out, n + 1, Len(out)), t)

(* C20  Post-pass frame.  What the post-pass has emitted for the Units it  *)
(* has been through is these Units in order, each Unit of more than 1.5    *)
(* times the target words replaced in its place by the pieces of its hard  *)
(* split, every other Unit as it was; and split_long_page is entered for   *)
(* Units over that threshold only.                                         *)

C20_PostPassFrame ==
    /\ pc = "postpass" =>
         Framed(SubSeq(inputs, 1, idx - 1), new_inputs, target)
    /\ pc = "split" =>
         /\ Over(inputs[idx], target)
         /\ Concat(sl_pages) \o page = inputs[idx]
         /\ Framed(SubSeq(inputs, 1, idx - 1), new_inputs, target)

\* a Unit that was split stands between two that were kept
C20_Witness ==
    /\ pc = "postpass"
    /\ Len(inputs) = 3
    /\ idx = 4
    /\ ~Over(inputs[1], target)
    /\ Over(inputs[2], target)
    /\ ~Over(inputs[3], target)
    /\ Len(new_inputs) = 4
    /\ new_inputs[1] = inputs[1]
    /\ new_inputs[4] = inputs[3]

----------------------------------------------------------------------------
\* the code looks for the period among the first t characters of text
PeriodInReach(text, t) == \E i \in 1..Min(t, Len(text)) : text[i] = "."

\* the pieces the split of the Unit at idx has just returned
ReturnedPieces == SubSeq(new_inputs', Len(new_inputs) + 1, Len(new_inputs'))

(* C21  Sentence-end cuts (as claimed).  When an iteration of the loop of  *)
(* split_long_page cuts at a period, the piece ends with that period and   *)
(* the remaining text starts after it.  When the hard split of a Unit of   *)
(* five times the target words returns (500 words at target 100), it       *)
(* returns at least 4 pieces, each of at most 1.5 times the target words,  *)
(* that together are the Unit's text.                                      *)

C21_SentenceEndCuts ==
    [][/\ (pc = "split" /\ pc' = "split" /\ PeriodInReach(page, target)) =>
            LET piece == sl_pages'[Len(sl_pages')]
            IN  /\ piece # <<>>
                /\ piece[Len(piece)] = "."
                /\ page' = <<>> \/ page'[1] # "."
       /\ (pc = "split" /\ pc' = "postpass"
                /\ word_count(inputs[idx]) = 5 * target) =>
            /\ Len(ReturnedPieces) >= 4
            /\ \A k \in 1..Len(ReturnedPieces) :
                2 * word_count(ReturnedPieces[k]) <= 3 * target
            /\ Concat(ReturnedPieces) = inputs[idx]]_vars

----------------------------------------------------------------------------
(* C22  Transcript-improvement retry (as claimed).  An item whose          *)
(* text_improver call raised is passed through without improvement only    *)
(* after process_one_item has been invoked for it 3 times.                 *)

C22_ImproveRetry ==
    pc \in {"improving", "improved"} =>
        \A k \in 1..Len(items) :
            (improve[k].pc = "returned" /\ improve[k].failed) =>
                improve[k].tries = 3

----------------------------------------------------------------------------
(* C23  Transcript-improvement fallback is all-or-nothing.  After          *)
(* improve_transcript the item list has the same length and order, every   *)
(* item has improved_text, and for each item either both improved_text and *)
(* text_md come from successful improver calls on its old text_md, or one  *)
(* of the calls failed, text_md is unchanged and improved_text equals it;  *)
(* a failure on one item changes no other item.                            *)

HasImprovedText(it) == "improved_text" \in DOMAIN it

BothImproved(it, old) ==
    /\ it.improved_text = Improved(old.text_md).improve_transcript
    /\ it.text_md = Improved(old.text_md).improve_markdown

FellBack(it, old) ==
    /\ it.text_md = old.text_md
    /\ it.improved_text = old.text_md

C23_AllOrNothing ==
    pc = "improved" =>
        /\ Len(items) = Len(improve)
        /\ \A k \in 1..Len(items) :
            /\ HasImprovedText(items[k])
            /\ items[k].text = improve[k].before.text
            /\ IF improve[k].failed
               THEN FellBack(items[k], improve[k].before)
               ELSE BothImproved(items[k], improve[k].before)

\* improve_transcript is over; the first call of one item returned and its
\* second raised, while both calls of another item returned
C23_Witness ==
    /\ pc = "improved"
    /\ \E k, j \in 1..Len(items) :
        /\ improve[k].failed /\ improve[k].calls = 2
        /\ ~improve[j].failed
        /\ items[j].text_md # improve[j].before.text_md

----------------------------------------------------------------------------
(* C24  Page titles (as claimed).  After AudioBookApp is constructed a     *)
(* page with a heading is titled with its first heading's text, a page     *)
(* without headings has the title of the page before it, and page 0        *)
(* without headings is titled "Untitled".                                  *)

C24_PageTitles ==
    pc = "serving" =>
        \A k \in 1..Len(items) :
            items[k].page_title =
                IF items[k].headings # <<>> THEN items[k].headings[1][1]
                ELSE IF k > 1 THEN items[k - 1].page_title
                ELSE <<"Untitled">>

----------------------------------------------------------------------------
(* C25  Navigation closure.  On a book of N >= 1 pages a request for idx   *)
(* is served iff 0 <= idx < N and answers 404 otherwise; a served page     *)
(* shows Previous iff idx > 0 (to idx-1) and Next iff idx < N-1 (to        *)
(* idx+1), and every nearby-page link targets an index in [0, N); a        *)
(* browser that came from page 0 by links alone is never on a 404, and a   *)
(* click on Next leads from page i to page i+1.                            *)

\* the index a path asks for
Asked(path) == IF path = <<"/">> THEN 0 ELSE ParseInt(Tail(path))

ServedRight(r, n) ==
    LET i == Asked(r.path)
    IN  /\ r.page.status = IF 0 <= i /\ i < n THEN 200 ELSE 404
        /\ r.page.status = 200 =>
            /\ r.page.idx = i
            /\ r.page.nav.prev = IF i > 0 THEN <<"/">> \o Str(i - 1) ELSE <<>>
            /\ r.page.nav.next = IF i < n - 1 THEN <<"/">> \o Str(i + 1)
                                 ELSE <<>>
            /\ \A h \in r.page.nearby : Asked(h) \in 0..(n - 1)

C25_NavigationClosure ==
    /\ [](pc = "serving" /\ response.via # "none" =>
            /\ ServedRight(response, Len(items))
            /\ response.fromHome => response.page.status = 200)
    /\ [][response'.via = "next" =>
            /\ response.page.idx < Len(items) - 1
            /\ response'.page.status = 200
            /\ response'.page.idx = response.page.idx + 1]_vars

\* the browser went from page 0 to the last page of a book of 12 or more
\* pages by clicks on Next
C25_Witness ==
    /\ pc = "serving"
    /\ Len(items) >= 12
    /\ response.via = "next"
    /\ response.fromHome
    /\ response.page.status = 200
    /\ response.page.idx = Len(items) - 1
    /\ response.page.nav.next = <<>>

----------------------------------------------------------------------------
(* C26  Single playback (as claimed).  At most one _play thread is inside  *)
(* playsound at a time, and when interrupt() has returned no sound is      *)
(* playing.                                                                *)

\* this step is a call of interrupt(): by the monitor, by play, or by a
\* watcher
InterruptCalled ==
    \/ main.pc = "interrupt" /\ main'.pc # "interrupt"
    \/ main.pc = "save" /\ main'.pc # "save" /\ playing
    \/ \E w \in 1..Len(watchers) :
        watchers[w].pc = "loop" /\ watchers'[w].pc = "done" /\ playing

C26_SinglePlayback ==
    /\ [](Cardinality(Sounding) <= 1)
    /\ [][InterruptCalled => Sounding' = {}]_vars

----------------------------------------------------------------------------
(* C27  Clipboard-change interruption (as claimed).  When the clipboard    *)
(* content changes while a playback is inside playsound, interrupt() is    *)
(* eventually called, whatever the interleaving of the threads (the model  *)
(* stops the monitor after MaxPlays calls of play, so only playbacks       *)
(* before that are looked at).                                             *)

C27_ChangeInterrupts ==
    (pending /\ Len(threads) < MaxPlays)
        ~> (~pending \/ Len(threads) >= MaxPlays)

----------------------------------------------------------------------------
(* C28  Sequential chunk playback (as claimed).  sound.wav is overwritten  *)
(* and the next playback started only when every earlier playback has      *)
(* finished, and every playback sounds the chunk play was called for.      *)

C28_SequentialChunks ==
    /\ [](\A t \in Sounding : threads[t].sound = threads[t].chunk)
    /\ [][file' # file =>
            \A t \in 1..Len(threads) : threads[t].pc = "done"]_vars

----------------------------------------------------------------------------
(* C29  Clipboard monitor.  A poll leads to text_to_speech iff the trimmed *)
(* clipboard text is non-empty and differs from latest_text; before the    *)
(* conversion starts latest_text is that text and interrupt() was called;  *)
(* no empty text is spoken, no text is spoken twice in succession, and a   *)
(* poll that sees unchanged text leaves latest_text and the playback       *)
(* untouched.                                                              *)

C29_ClipboardMonitor ==
    /\ [](/\ \A i \in 1..Len(spoken) : spoken[i] # <<>>
          /\ \A i \in 1..(Len(spoken) - 1) : spoken[i] # spoken[i + 1]
          /\ main.pc = "text_to_speech" => latest_text = main.text)
    /\ [][/\ (main.pc = "poll" /\ main'.pc = "interrupt") =>
                /\ Paste # <<>> /\ Paste # latest_text
                /\ main'.text = Paste
                /\ UNCHANGED <<latest_text, playing, threads, spoken>>
          /\ (main.pc = "poll" /\ main'.pc = "sleep") =>
                /\ Paste = <<>> \/ Paste = latest_text
                /\ UNCHANGED <<latest_text, playing, threads, watchers,
                               file, spoken>>
          /\ (main.pc = "interrupt" /\ main'.pc = "text_to_speech") =>
                /\ ~playing'
                /\ latest_text' = main.text
                /\ spoken' = spoken
          /\ spoken' # spoken =>
                /\ main.pc = "text_to_speech"
                /\ spoken' = Append(spoken, latest_text)]_vars

\* two texts were spoken, and a poll found the clipboard holding the last
\* one with a blank before it
C29_Witness ==
    /\ Len(spoken) = 2
    /\ main.pc = "sleep"
    /\ clipboard = <<" ", "a">>
    /\ latest_text = <<"a">>
    /\ main.text = <<"a">>
    /\ \A w \in 1..Len(watchers) : watchers[w].pc = "done"

====
